---- MODULE Spec2Model ----
(***************************************************************************)
(* Model of the two FastAPI applications of the repository:                *)
(*   src/api/main.py          the tabular routes, /indicateurs/cubes and   *)
(*                            /indicateurs/query                           *)
(*   src/BACKEND/api/main.py  the aggregate route /indicateurs             *)
(*                                                                         *)
(* One inbound request is followed from its arrival to its response.  A    *)
(* handler is cut at its awaits: the step up to the outbound call, and the *)
(* step that handles what the upstream answered.                           *)
(*                                                                         *)
(* Text.  A Python str is a sequence of symbols.  A symbol is one          *)
(* character ("a", "'", ":", " "), except that a run of identifier         *)
(* characters which no operation of the code looks into (a cube name,      *)
(* "measures", ".annee") is carried as one symbol.  None is <<>> and a     *)
(* present optional value v is <<v>>.                                      *)
(***************************************************************************)
EXTENDS Integers, Sequences, FiniteSets, TLC

VARIABLES
    envToken,   \* os.getenv("token") of the process: <<>> (unset) or <<str>>
    pc,         \* position of the request: "idle", "await", "done"
    route,      \* the route of the request in progress
    req,        \* its parameters, as the framework received them
    query,      \* the query dict the handler built (cube routes)
    calls,      \* the outbound calls issued for this request, in order
    results,    \* aggregate route: the values query_cube returned so far
    answers,    \* what the upstream answered to those calls, in order
    resp        \* the response to the caller: <<>> until the request ends

vars == <<envToken, pc, route, req, query, calls, results, answers, resp>>

----------------------------------------------------------------------------
(* Bounds of the model *)

\* longest filters string tried in SpecFilters
MaxFilterLen == 5
\* longest commune tried in SpecCommune
MaxCommuneLen == 3
\* how far past the excerpt cap the upstream bodies tried go
MaxBodyOver == 2

----------------------------------------------------------------------------
(* Python str operations *)

None == <<>>
Some(v) == <<v>>

Min(a, b) == IF a <= b THEN a ELSE b

\* all sequences over alphabet of length at most n
RECURSIVE StringsUpTo(_, _)
StringsUpTo(alphabet, n) ==
    IF n = 0 THEN {<<>>}
    ELSE LET shorter == StringsUpTo(alphabet, n - 1)
         IN  shorter \cup {Append(s, c) : s \in shorter, c \in alphabet}

\* index of the first occurrence of symbol c in s, 0 when there is none
FirstIndex(s, c) ==
    IF \E i \in 1..Len(s) : s[i] = c
    THEN CHOOSE i \in 1..Len(s) : s[i] = c /\ \A j \in 1..(i - 1) : s[j] # c
    ELSE 0

\* s.split(sep) for a one-character separator: always at least one part
RECURSIVE Split(_, _)
Split(s, sep) ==
    LET i == FirstIndex(s, sep)
    IN  IF i = 0 THEN <<s>>
        ELSE <<SubSeq(s, 1, i - 1)>> \o Split(SubSeq(s, i + 1, Len(s)), sep)

IsSpace(c) == c \in {" ", "\t"}

\* s.strip(): leading and trailing whitespace removed
RECURSIVE LStrip(_)
LStrip(s) ==
    IF s # <<>> /\ IsSpace(s[1]) THEN LStrip(Tail(s)) ELSE s

RECURSIVE RStrip(_)
RStrip(s) ==
    IF s # <<>> /\ IsSpace(s[Len(s)]) THEN RStrip(SubSeq(s, 1, Len(s) - 1)) ELSE s

Strip(s) == RStrip(LStrip(s))

LowerLetters == {"a", "b"}
UpperLetters == {"A", "B"}
IsCased(c) == c \in LowerLetters \cup UpperLetters
ToUpper(c) == CASE c = "a" -> "A" [] c = "b" -> "B" [] OTHER -> c
ToLower(c) == CASE c = "A" -> "a" [] c = "B" -> "b" [] OTHER -> c

\* s.title(): a cased character is upper-cased when the character before it
\* is not cased (or there is none), lower-cased otherwise
Title(s) ==
    [i \in 1..Len(s) |->
        IF ~IsCased(s[i]) THEN s[i]
        ELSE IF i > 1 /\ IsCased(s[i - 1]) THEN ToLower(s[i]) ELSE ToUpper(s[i])]

\* s.replace(old, new) for one-character old and new
Replace(s, old, new) == [i \in 1..Len(s) |-> IF s[i] = old THEN new ELSE s[i]]

\* the concatenation of a sequence of strings
RECURSIVE Concat(_)
Concat(ss) == IF ss = <<>> THEN <<>> ELSE Head(ss) \o Concat(Tail(ss))

\* sep.join(ss)
RECURSIVE Join(_, _)
Join(ss, sep) ==
    IF ss = <<>> THEN <<>>
    ELSE IF Len(ss) = 1 THEN ss[1]
    ELSE ss[1] \o sep \o Join(Tail(ss), sep)

Digits == <<"0", "1", "2", "3", "4", "5", "6", "7", "8", "9">>

\* str(n) for an int
RECURSIVE NatStr(_)
NatStr(n) == IF n < 10 THEN <<Digits[n + 1]>> ELSE Append(NatStr(n \div 10), Digits[(n % 10) + 1])

IntStr(n) == IF n < 0 THEN <<"-">> \o NatStr(-n) ELSE NatStr(n)

----------------------------------------------------------------------------
(* Python values: what a query dict is made of *)

PyStr(s) == [t |-> "str", s |-> s]
PyInt(n) == [t |-> "int", n |-> n]
PyList(items) == [t |-> "list", items |-> items]
\* a dict keeps its insertion order: a sequence of <<key, value>>, key a str
PyDict(items) == [t |-> "dict", items |-> items]

DictHas(d, key) == \E i \in 1..Len(d.items) : d.items[i][1] = key

DictGet(d, key) ==
    d.items[CHOOSE i \in 1..Len(d.items) : d.items[i][1] = key][2]

\* repr(s) of a str: quoted with ', or with " when s holds a ' and no ";
\* the quote character in use and the backslash are escaped
ReprQuote(s) ==
    IF (\E i \in 1..Len(s) : s[i] = "'") /\ ~(\E i \in 1..Len(s) : s[i] = "\"")
    THEN "\"" ELSE "'"

ReprChar(c, quote) ==
    CASE c = quote \/ c = "\\" -> <<"\\", c>>
      [] c = "\t" -> <<"\\", "t">>
      [] OTHER -> <<c>>

ReprStr(s) ==
    LET quote == ReprQuote(s)
    IN  <<quote>> \o Concat([i \in 1..Len(s) |-> ReprChar(s[i], quote)]) \o <<quote>>

\* repr(v): str(query) of the handlers
RECURSIVE Repr(_)
Repr(v) ==
    CASE v.t = "str" -> ReprStr(v.s)
      [] v.t = "int" -> IntStr(v.n)
      [] v.t = "list" ->
            <<"[">> \o Join([i \in 1..Len(v.items) |-> Repr(v.items[i])], <<",", " ">>)
                    \o <<"]">>
      [] v.t = "dict" ->
            <<"{">> \o Join([i \in 1..Len(v.items) |->
                                ReprStr(v.items[i][1]) \o <<":", " ">> \o Repr(v.items[i][2])],
                            <<",", " ">>)
                    \o <<"}">>

\* params={"query": str(query).replace("'", '"')}
SerializeQuery(q) == Replace(Repr(q), "'", "\"")

----------------------------------------------------------------------------
(* The query builders *)

StripAll(parts) == [i \in 1..Len(parts) |-> PyStr(Strip(parts[i]))]

FilterDict(member, operator, value) ==
    PyDict(<< <<(<<"member">>), PyStr(member)>>,
              <<(<<"operator">>), PyStr(operator)>>,
              <<(<<"values">>), PyList(<<PyStr(value)>>)>> >>)

\* mutant of FilterList: only expressions of exactly 3 fields are kept
RECURSIVE FilterListExactlyThree(_)
FilterListExactlyThree(exprs) ==
    IF exprs = <<>> THEN <<>>
    ELSE LET parts == Split(Head(exprs), ":")
         IN  (IF Len(parts) = 3
              THEN <<FilterDict(parts[1], parts[2], parts[3])>>
              ELSE <<>>)
             \o FilterListExactlyThree(Tail(exprs))

\* the loop over filters.split(";") of query_indicateurs
RECURSIVE FilterList(_)
FilterList(exprs) ==
    IF exprs = <<>> THEN <<>>
    ELSE LET parts == Split(Head(exprs), ":")
         IN  (IF Len(parts) >= 3
              THEN <<FilterDict(parts[1], parts[2], parts[3])>>
              ELSE <<>>)
             \o FilterList(Tail(exprs))

\* the query dict of query_indicateurs
OpenQuery(measures, dimensions, filters, limit) ==
    PyDict(<< <<(<<"measures">>), PyList(StripAll(Split(measures, ",")))>>,
              <<(<<"limit">>), PyInt(limit)>> >>
           \o (IF dimensions # <<>>
               THEN << <<(<<"dimensions">>), PyList(StripAll(Split(dimensions, ",")))>> >>
               ELSE <<>>)
           \o (IF filters # <<>>
               THEN << <<(<<"filters">>), PyList(FilterList(Split(filters, ";")))>> >>
               ELSE <<>>))

YearThreshold == <<"2", "0", "2", "0">>
CubeLimit == 10

\* mutant of CommuneFormatted: the commune is used as received
CommuneRaw(commune) == commune

\* commune.strip().title()
CommuneFormatted(commune) == Title(Strip(commune))

\* the query dict of query_cube
CubeQuery(cube, measure, commune) ==
    PyDict(<< <<(<<"measures">>), PyList(<<PyStr(measure)>>)>>,
              <<(<<"dimensions">>),
                PyList(<<PyStr(cube \o <<".libelle_commune">>), PyStr(cube \o <<".annee">>)>>)>>,
              <<(<<"filters">>),
                PyList(<<FilterDict(cube \o <<".libelle_commune">>, <<"equals">>,
                                    CommuneFormatted(commune)),
                         FilterDict(cube \o <<".annee">>, <<"gte">>, YearThreshold)>>)>>,
              <<(<<"order">>),
                PyList(<<PyList(<<PyStr(cube \o <<".annee">>), PyStr(<<"desc">>)>>)>>)>>,
              <<(<<"limit">>), PyInt(CubeLimit)>> >>)

----------------------------------------------------------------------------
(* What the upstream does with the query parameter: it decodes it as JSON. *)
(* A recursive-descent JSON decoder over symbols; a parse result is        *)
(* [ok, val, pos], pos the index after what was read.                      *)

JsonFail == [ok |-> FALSE, val |-> PyInt(0), pos |-> 0]
JsonOk(v, p) == [ok |-> TRUE, val |-> v, pos |-> p]

JsonWs == {" ", "\t", "\n", "\r"}
JsonStructural == {"{", "}", "[", "]", ",", ":"}
JsonEscapes == {"\"", "\\", "/", "b", "f", "n", "r", "t"}
JsonDigits == {Digits[i] : i \in 1..10}

RECURSIVE SkipWs(_, _)
SkipWs(s, i) == IF i <= Len(s) /\ s[i] \in JsonWs THEN SkipWs(s, i + 1) ELSE i

Unescape(c) ==
    CASE c = "t" -> "\t" [] c = "n" -> "\n" [] c = "r" -> "\r" [] OTHER -> c

\* the characters of a string literal from index i (after the opening quote)
RECURSIVE JsonStringBody(_, _, _)
JsonStringBody(s, i, acc) ==
    IF i > Len(s) THEN JsonFail
    ELSE IF s[i] = "\"" THEN JsonOk(PyStr(acc), i + 1)
    ELSE IF s[i] = "\\"
         THEN IF i + 1 <= Len(s) /\ s[i + 1] \in JsonEscapes
              THEN JsonStringBody(s, i + 2, Append(acc, Unescape(s[i + 1])))
              ELSE JsonFail
    ELSE IF s[i] \in {"\t", "\n", "\r"} THEN JsonFail
    ELSE JsonStringBody(s, i + 1, Append(acc, s[i]))

JsonString(s, i) ==
    IF i <= Len(s) /\ s[i] = "\"" THEN JsonStringBody(s, i + 1, <<>>) ELSE JsonFail

DigitValue(c) == CHOOSE d \in 0..9 : Digits[d + 1] = c

RECURSIVE JsonDigitsFrom(_, _, _)
JsonDigitsFrom(s, i, acc) ==
    IF i <= Len(s) /\ s[i] \in JsonDigits
    THEN JsonDigitsFrom(s, i + 1, 10 * acc + DigitValue(s[i]))
    ELSE JsonOk(PyInt(acc), i)

\* an integer: an optional minus, then 0 or digits with no leading 0
JsonNumber(s, i) ==
    LET neg == i <= Len(s) /\ s[i] = "-"
        j == IF neg THEN i + 1 ELSE i
    IN  IF ~(j <= Len(s) /\ s[j] \in JsonDigits) THEN JsonFail
        ELSE IF s[j] = "0" /\ j + 1 <= Len(s) /\ s[j + 1] \in JsonDigits THEN JsonFail
        ELSE LET r == JsonDigitsFrom(s, j, 0)
             IN  JsonOk(PyInt(IF neg THEN 0 - r.val.n ELSE r.val.n), r.pos)

RECURSIVE JsonValue(_, _)
RECURSIVE JsonElements(_, _, _)
RECURSIVE JsonMembers(_, _, _)

\* the elements of an array from index i (after "[" or after a ",")
JsonElements(s, i, acc) ==
    LET v == JsonValue(s, SkipWs(s, i))
        j == SkipWs(s, v.pos)
    IN  IF ~v.ok \/ j > Len(s) THEN JsonFail
        ELSE IF s[j] = "," THEN JsonElements(s, j + 1, Append(acc, v.val))
        ELSE IF s[j] = "]" THEN JsonOk(PyList(Append(acc, v.val)), j + 1)
        ELSE JsonFail

\* the members of an object from index i (after "{" or after a ",")
JsonMembers(s, i, acc) ==
    LET k == JsonString(s, SkipWs(s, i))
        c == SkipWs(s, k.pos)
    IN  IF ~k.ok \/ c > Len(s) \/ s[c] # ":" THEN JsonFail
        ELSE LET v == JsonValue(s, SkipWs(s, c + 1))
                 j == SkipWs(s, v.pos)
             IN  IF ~v.ok \/ j > Len(s) THEN JsonFail
                 ELSE IF s[j] = ","
                      THEN JsonMembers(s, j + 1, Append(acc, <<k.val.s, v.val>>))
                 ELSE IF s[j] = "}"
                      THEN JsonOk(PyDict(Append(acc, <<k.val.s, v.val>>)), j + 1)
                 ELSE JsonFail

JsonValue(s, i) ==
    IF i > Len(s) THEN JsonFail
    ELSE IF s[i] = "\"" THEN JsonString(s, i)
    ELSE IF s[i] = "-" \/ s[i] \in JsonDigits THEN JsonNumber(s, i)
    ELSE IF s[i] = "["
         THEN LET j == SkipWs(s, i + 1)
              IN  IF j <= Len(s) /\ s[j] = "]" THEN JsonOk(PyList(<<>>), j + 1)
                  ELSE JsonElements(s, i + 1, <<>>)
    ELSE IF s[i] = "{"
         THEN LET j == SkipWs(s, i + 1)
              IN  IF j <= Len(s) /\ s[j] = "}" THEN JsonOk(PyDict(<<>>), j + 1)
                  ELSE JsonMembers(s, i + 1, <<>>)
    ELSE JsonFail

\* json.loads(s): the whole text is one value
JsonDecode(s) ==
    LET r == JsonValue(s, SkipWs(s, 1))
    IN  IF r.ok /\ SkipWs(s, r.pos) = Len(s) + 1 THEN r ELSE JsonFail

----------------------------------------------------------------------------
(* Program constants *)

LimitMin == 1
LimitMax == 1000
LimitDefault == 100
PageMin == 1
PageSizeMin == 1
PageSizeMax == 100
ExcerptCap == 500
MetaTimeout == 10
LoadTimeout == 30

TABULAR_API_BASE == <<"https://tabular-api.data.gouv.fr/api">>
CUBEJS_API == <<"https://api.indicateurs.ecologie.gouv.fr/cubejs-api/v1">>

\* the five (category, cube, measure) of get_indicateurs, in call order
Indicators ==
    << [key |-> "mobilite", cube |-> <<"lineaire_cyclable_habitant_com">>,
        measure |-> <<"lineaire_cyclable_habitant_com.id_839">>],
       [key |-> "energie", cube |-> <<"puissance_elec_installee_com">>,
        measure |-> <<"puissance_elec_installee_com.id_636">>],
       [key |-> "ges", cube |-> <<"emission_ges_hab_com">>,
        measure |-> <<"emission_ges_hab_com.id_2">>],
       [key |-> "biodiversite", cube |-> <<"sequestr_nette_co2_com">>,
        measure |-> <<"sequestr_nette_co2_com.id_615">>],
       [key |-> "eau", cube |-> <<"prelevement_eau_usage_com">>,
        measure |-> <<"prelevement_eau_usage_com.id_638">>] >>

----------------------------------------------------------------------------
(* Requests, outbound calls, upstream answers, responses *)

NoReq == [none |-> TRUE]
NoQuery == [t |-> "none"]
NoResp == [kind |-> "none"]

\* raise HTTPException(status_code=..., detail=...)
HttpError(status, detail) == [kind |-> "error", status |-> status, detail |-> detail]
\* a handler's return value, sent with status 200
JsonResponse(body) == [kind |-> "ok", status |-> 200, body |-> body]
\* the framework's answer to a parameter that fails its Query(...) declaration
ValidationError == HttpError(422, <<"validation error">>)
\* the framework's answer to an exception no handler catches
ServerError == HttpError(500, <<"Internal Server Error">>)

\* client.get raised (timeout, connection failure): there is no response
TransportFailure == [kind |-> "failure"]
\* a response: its status, its text, and response.json() (None: it raises)
UpstreamResponse(status, body) ==
    [kind |-> "response", status |-> status, text |-> body.text, parsed |-> body.parsed]

\* a parsed JSON object: the keys it holds and the values of those the code reads
Payload(keys, data, cubes) == [keys |-> keys, data |-> data, cubes |-> cubes]

\* a body text of n characters; the character at i tells i modulo 10
Filler(n) == [i \in 1..n |-> Digits[(i % 10) + 1]]

\* mutant of Truthy: "is not None" in place of truthiness
TruthyIsNotNone(opt) == opt # None

\* truthiness of an Optional[str]: None and "" are falsy
Truthy(opt) == opt # None /\ opt[1] # <<>>

\* jwt_token = token or os.getenv("token")
ResolveToken(token, env) == IF Truthy(token) THEN token ELSE env

\* headers = {"Authorization": f"Bearer {jwt_token}"}
Bearer(jwt) == <<"Bearer", " ">> \o jwt

\* mutant of IssueCall: the call is sent a second time
IssueCallTwice(cs, call) == Append(Append(cs, call), call)

\* one more client.get(...) awaited
IssueCall(cs, call) == Append(cs, call)

TabularCall(rid, suffix) ==
    [url |-> TABULAR_API_BASE \o <<"/resources/">> \o rid \o suffix]

TabularDataCall(rid, page, page_size) ==
    [url |-> TABULAR_API_BASE \o <<"/resources/">> \o rid \o <<"/data/">>,
     page |-> page, page_size |-> page_size]

MetaCall(jwt) ==
    [url |-> CUBEJS_API \o <<"/meta">>, auth |-> Bearer(jwt), timeout |-> MetaTimeout]

LoadCall(jwt, q) ==
    [url |-> CUBEJS_API \o <<"/load">>, auth |-> Bearer(jwt),
     query |-> SerializeQuery(q), timeout |-> LoadTimeout]

\* Query(1, ge=1) and Query(20, ge=1, le=100) of get_resource_data
PageValid(page) == page >= PageMin
PageSizeValid(page_size) == page_size >= PageSizeMin /\ page_size <= PageSizeMax
\* mutant of LimitValid: the upper bound is not declared
LimitValidNoMax(limit) == limit >= LimitMin

\* Query(100, ge=1, le=1000) of query_indicateurs
LimitValid(limit) == limit >= LimitMin /\ limit <= LimitMax

\* mutant of Excerpt: the body is not cut
ExcerptWhole(text) == text

\* response.text[:500]
Excerpt(text) == SubSeq(text, 1, Min(ExcerptCap, Len(text)))

\* mutant of DataOrEmpty: the default is returned whatever the payload
DataAlwaysEmpty(payload) == <<>>

\* response.json().get("data", [])
DataOrEmpty(payload) == IF "data" \in payload.keys THEN payload.data ELSE <<>>

\* a response body that is the parsed upstream object, unmodified
ObjectBody(payload) == [t |-> "object", v |-> payload]

\* the body of the three tabular handlers after the call
TabularResult(answer, detail) ==
    IF answer.kind = "failure" THEN ServerError
    ELSE IF answer.status # 200 THEN HttpError(answer.status, detail)
    ELSE IF answer.parsed = None THEN ServerError
    ELSE JsonResponse(ObjectBody(answer.parsed[1]))

\* one entry of the simplified cube list of get_indicateurs_cubes
CubeSummary(cube) ==
    [name |-> cube.name[1],
     title |-> IF cube.title # None THEN cube.title[1] ELSE cube.name[1],
     measures |-> IF cube.measures # None THEN cube.measures[1] ELSE <<>>,
     dimensions |-> IF cube.dimensions # None THEN cube.dimensions[1] ELSE <<>>]

\* get_indicateurs_cubes after the call: the status is never looked at
CubesResult(answer) ==
    IF answer.kind = "failure" THEN ServerError
    ELSE IF answer.parsed = None THEN ServerError
    ELSE LET listed == IF "cubes" \in answer.parsed[1].keys
                       THEN answer.parsed[1].cubes ELSE <<>>
         IN  IF \E i \in 1..Len(listed) : listed[i].name = None THEN ServerError
             ELSE JsonResponse([t |-> "cubes",
                                cubes |-> [i \in 1..Len(listed) |-> CubeSummary(listed[i])],
                                total |-> Len(listed)])

\* query_indicateurs after the call
QueryResult(answer) ==
    IF answer.kind = "failure" THEN ServerError
    ELSE IF answer.status # 200 THEN HttpError(answer.status, Excerpt(answer.text))
    ELSE IF answer.parsed = None THEN ServerError
    ELSE JsonResponse(ObjectBody(answer.parsed[1]))

\* what query_cube returns after its call, when it returns
QueryCubeValue(answer) ==
    IF answer.status = 200 THEN DataOrEmpty(answer.parsed[1]) ELSE <<>>

\* whether query_cube raises instead of returning
QueryCubeRaises(answer) ==
    \/ answer.kind = "failure"
    \/ answer.status = 200 /\ answer.parsed = None

\* the dict get_indicateurs returns
IndicateursBody(values) ==
    [t |-> "indicateurs",
     mobilite |-> values[1], energie |-> values[2], ges |-> values[3],
     biodiversite |-> values[4], eau |-> values[5]]

----------------------------------------------------------------------------
(* The inputs tried *)

EnvTokens == {None, Some(<<>>), Some(<<"env-jwt">>)}
TokenParams == {None, Some(<<>>), Some(<<"param-jwt">>)}
ResourceIds == {<<"1c5075ec-7ce1-49cb-ab89-94f507812daf">>}
PageInputs == {0, 1, 2}
PageSizeInputs == {0, 1, 100, 101}
LimitInputs == {-1, 0, 1, 100, 1000, 1001, 5000}
CubeInputs == {None, Some(<<"tri_biodechets_dpt">>)}
MeasureInputs ==
    {None, Some(<<"m">>), Some(<<"m", ",", " ", "n">>), Some(<<"m", "'", "n">>)}
DimensionInputs == {<<>>, <<"d", ",", "e">>}
FilterInputs ==
    {<<>>, <<"cube.commune", ":", "equals", ":", "Paris">>, <<"cube.commune", ":", "equals">>}
CommuneInputs == {None, Some(<<"a", "b">>), Some(<<" ", "b", "'", "A", "b">>)}

\* every filters string of at most MaxFilterLen characters
FilterStrings == StringsUpTo({"f", ":", ";"}, MaxFilterLen)
\* every commune of at most MaxCommuneLen characters
CommuneStrings == StringsUpTo({"a", "B", " ", "'"}, MaxCommuneLen)

Statuses == {200, 204, 404, 500}

CubeA ==
    [name |-> Some(<<"cube_a">>), title |-> Some(<<"Cube A">>),
     measures |-> Some(<< <<"cube_a.id_1">> >>), dimensions |-> Some(<< <<"cube_a.annee">> >>)]
CubeB == [name |-> Some(<<"cube_b">>), title |-> None, measures |-> None, dimensions |-> None]
CubeNameless == [name |-> None, title |-> None, measures |-> None, dimensions |-> None]

Payloads ==
    {Payload({}, <<>>, <<>>),
     Payload({"data"}, <<"row1">>, <<>>),
     Payload({"data"}, <<"row2", "row3">>, <<>>),
     Payload({"cubes"}, <<>>, <<CubeA, CubeB>>),
     Payload({"cubes"}, <<>>, <<CubeNameless>>)}

TextBody(n) == [text |-> Filler(n), parsed |-> None]
JsonBody(n, payload) == [text |-> Filler(n), parsed |-> Some(payload)]

BodyLens == {0} \cup ((ExcerptCap - 1)..(ExcerptCap + MaxBodyOver))
JsonLens == {ExcerptCap \div 2, ExcerptCap + MaxBodyOver}

Bodies ==
    {TextBody(n) : n \in BodyLens} \cup {JsonBody(n, p) : n \in JsonLens, p \in Payloads}

\* what the upstream may do with one call
Outcomes ==
    {TransportFailure} \cup {UpstreamResponse(st, b) : st \in Statuses, b \in Bodies}

\* the same, for each of the five calls of the aggregate route
LoadOutcomes ==
    {TransportFailure,
     UpstreamResponse(200, TextBody(0)),
     UpstreamResponse(500, TextBody(0)),
     UpstreamResponse(200, JsonBody(ExcerptCap \div 2, Payload({}, <<>>, <<>>))),
     UpstreamResponse(200, JsonBody(ExcerptCap \div 2, Payload({"data"}, <<"row1">>, <<>>))),
     UpstreamResponse(200, JsonBody(ExcerptCap \div 2, Payload({"data"}, <<"row2", "row3">>, <<>>)))}

FewOutcomes ==
    {TransportFailure,
     UpstreamResponse(200, JsonBody(ExcerptCap \div 2, Payload({"data"}, <<"row1">>, <<>>)))}

----------------------------------------------------------------------------
(* The state machine *)

Init ==
    /\ envToken \in EnvTokens
    /\ pc = "idle"
    /\ route = "none"
    /\ req = NoReq
    /\ query = NoQuery
    /\ calls = <<>>
    /\ results = <<>>
    /\ answers = <<>>
    /\ resp = NoResp

\* the handler ran up to its first await: the call is out
Awaiting(r, request, q, call) ==
    /\ pc' = "await"
    /\ route' = r
    /\ req' = request
    /\ query' = q
    /\ calls' = IssueCall(calls, call)
    /\ UNCHANGED <<envToken, results, answers, resp>>

\* the request ended before any await
Rejected(r, request, response) ==
    /\ pc' = "done"
    /\ route' = r
    /\ req' = request
    /\ resp' = response
    /\ UNCHANGED <<envToken, query, calls, results, answers>>

\* the handler got the answer to its only call and ended
Answered(answer, response) ==
    /\ pc' = "done"
    /\ answers' = Append(answers, answer)
    /\ resp' = response
    /\ UNCHANGED <<envToken, route, req, query, calls, results>>

\* GET /tabular/resources/{resource_id}, up to the call (the detail texts are
\* written without their accents)
GetResourceInfo(rid) ==
    /\ pc = "idle"
    /\ Awaiting("info", [resource_id |-> rid], NoQuery, TabularCall(rid, <<"/">>))

GetResourceInfoDone(answer) ==
    /\ pc = "await" /\ route = "info"
    /\ Answered(answer, TabularResult(answer, <<"Ressource non trouvee">>))

\* GET /tabular/resources/{resource_id}/data, up to the call
GetResourceData(rid, page, page_size) ==
    /\ pc = "idle"
    /\ LET request == [resource_id |-> rid, page |-> page, page_size |-> page_size]
       IN  IF ~(PageValid(page) /\ PageSizeValid(page_size))
           THEN Rejected("data", request, ValidationError)
           ELSE Awaiting("data", request, NoQuery, TabularDataCall(rid, page, page_size))

GetResourceDataDone(answer) ==
    /\ pc = "await" /\ route = "data"
    /\ Answered(answer,
                TabularResult(answer, <<"Erreur lors de la recuperation des donnees">>))

\* GET /tabular/resources/{resource_id}/profile, up to the call
GetResourceProfile(rid) ==
    /\ pc = "idle"
    /\ Awaiting("profile", [resource_id |-> rid], NoQuery, TabularCall(rid, <<"/profile/">>))

GetResourceProfileDone(answer) ==
    /\ pc = "await" /\ route = "profile"
    /\ Answered(answer, TabularResult(answer, <<"Profil non disponible">>))

\* GET /indicateurs/cubes, up to the call
GetIndicateursCubes(token) ==
    /\ pc = "idle"
    /\ LET jwt_token == ResolveToken(token, envToken)
           request == [token |-> token]
       IN  IF ~Truthy(jwt_token)
           THEN Rejected("cubes", request, HttpError(401, <<"Token JWT manquant">>))
           ELSE Awaiting("cubes", request, NoQuery, MetaCall(jwt_token[1]))

GetIndicateursCubesDone(answer) ==
    /\ pc = "await" /\ route = "cubes"
    /\ Answered(answer, CubesResult(answer))

\* GET /indicateurs/query, up to the call; cube and measures are required
QueryIndicateurs(cube, measures, dimensions, filters, limit, token) ==
    /\ pc = "idle"
    /\ LET jwt_token == ResolveToken(token, envToken)
           request == [cube |-> cube, measures |-> measures, dimensions |-> dimensions,
                       filters |-> filters, limit |-> limit, token |-> token]
       IN  IF cube = None \/ measures = None \/ ~LimitValid(limit)
           THEN Rejected("query", request, ValidationError)
           ELSE IF ~Truthy(jwt_token)
           THEN Rejected("query", request, HttpError(401, <<"Token JWT manquant">>))
           ELSE LET q == OpenQuery(measures[1], dimensions, filters, limit)
                IN  Awaiting("query", request, q, LoadCall(jwt_token[1], q))

QueryIndicateursDone(answer) ==
    /\ pc = "await" /\ route = "query"
    /\ Answered(answer, QueryResult(answer))

\* GET /indicateurs, up to the first query_cube call; commune is required
GetIndicateurs(commune) ==
    /\ pc = "idle"
    /\ LET request == [commune |-> commune]
       IN  IF commune = None
           THEN Rejected("indicateurs", request, ValidationError)
           ELSE IF ~Truthy(envToken)
           THEN Rejected("indicateurs", request,
                         HttpError(401, <<"Token manquant dans .env">>))
           ELSE LET q == CubeQuery(Indicators[1].cube, Indicators[1].measure, commune[1])
                IN  Awaiting("indicateurs", request, q, LoadCall(envToken[1], q))

\* query_cube got its answer: it raises, or returns and get_indicateurs goes
\* on to the next query_cube call, or to its return after the fifth
QueryCubeAnswered(answer) ==
    /\ pc = "await" /\ route = "indicateurs"
    /\ answers' = Append(answers, answer)
    /\ IF QueryCubeRaises(answer)
       THEN /\ pc' = "done"
            /\ resp' = ServerError
            /\ UNCHANGED <<query, calls, results>>
       ELSE LET values == Append(results, QueryCubeValue(answer))
                next == Len(values) + 1
            IN  /\ results' = values
                /\ IF next <= Len(Indicators)
                   THEN LET q == CubeQuery(Indicators[next].cube, Indicators[next].measure,
                                           req.commune[1])
                        IN  /\ pc' = "await"
                            /\ query' = q
                            /\ calls' = IssueCall(calls, LoadCall(envToken[1], q))
                            /\ resp' = resp
                   ELSE /\ pc' = "done"
                        /\ resp' = JsonResponse(IndicateursBody(values))
                        /\ UNCHANGED <<query, calls>>
    /\ UNCHANGED <<envToken, route, req>>

\* the response is sent; nothing of the request outlives it
Finish ==
    /\ pc = "done"
    /\ pc' = "idle"
    /\ route' = "none"
    /\ req' = NoReq
    /\ query' = NoQuery
    /\ calls' = <<>>
    /\ results' = <<>>
    /\ answers' = <<>>
    /\ resp' = NoResp
    /\ UNCHANGED envToken

Next ==
    \/ \E rid \in ResourceIds : GetResourceInfo(rid)
    \/ \E a \in Outcomes : GetResourceInfoDone(a)
    \/ \E rid \in ResourceIds, page \in PageInputs, page_size \in PageSizeInputs :
            GetResourceData(rid, page, page_size)
    \/ \E a \in Outcomes : GetResourceDataDone(a)
    \/ \E rid \in ResourceIds : GetResourceProfile(rid)
    \/ \E a \in Outcomes : GetResourceProfileDone(a)
    \/ \E token \in TokenParams : GetIndicateursCubes(token)
    \/ \E a \in Outcomes : GetIndicateursCubesDone(a)
    \/ \E cube \in CubeInputs, measures \in MeasureInputs, dimensions \in DimensionInputs,
          filters \in FilterInputs, limit \in LimitInputs, token \in TokenParams :
            QueryIndicateurs(cube, measures, dimensions, filters, limit, token)
    \/ \E a \in Outcomes : QueryIndicateursDone(a)
    \/ \E commune \in CommuneInputs : GetIndicateurs(commune)
    \/ \E a \in LoadOutcomes : QueryCubeAnswered(a)
    \/ Finish

Spec == Init /\ [][Next]_vars

\* /indicateurs/query over every filters string
NextFilters ==
    \/ \E filters \in FilterStrings, dimensions \in DimensionInputs, token \in TokenParams :
            QueryIndicateurs(Some(<<"tri_biodechets_dpt">>), Some(<<"m">>), dimensions,
                             filters, LimitDefault, token)
    \/ \E a \in FewOutcomes : QueryIndicateursDone(a)
    \/ Finish

SpecFilters == Init /\ [][NextFilters]_vars

\* /indicateurs over every commune
NextCommune ==
    \/ \E commune \in CommuneStrings : GetIndicateurs(Some(commune))
    \/ \E a \in FewOutcomes : QueryCubeAnswered(a)
    \/ Finish

SpecCommune == Init /\ [][NextCommune]_vars

----------------------------------------------------------------------------
(* Vocabulary of the properties *)

CredentialRoutes == {"cubes", "query", "indicateurs"}
SingleCallRoutes == {"info", "data", "profile", "cubes", "query"}

Blank(opt) == opt = <<>> \/ opt = << <<>> >>

\* no token in the environment and none (or an empty one) in the request
NoCredential ==
    /\ Blank(envToken)
    /\ route \in {"cubes", "query"} => Blank(req.token)

\* the request fails the declared constraints of its parameters
ParametersRejected ==
    \/ route = "data" /\ (req.page < 1 \/ req.page_size < 1 \/ req.page_size > 100)
    \/ route = "query" /\ (req.cube = <<>> \/ req.measures = <<>>
                           \/ req.limit < 1 \/ req.limit > 1000)
    \/ route = "indicateurs" /\ req.commune = <<>>

IsResponse(a) == a.kind = "response"
NonSuccess(a) == IsResponse(a) /\ (a.status < 200 \/ a.status > 299)
SucceededWithJson(a) == IsResponse(a) /\ a.status = 200 /\ a.parsed # <<>>
CallFailed(a) == a.kind = "failure" \/ a.status # 200
DataField(a) == IF "data" \in a.parsed[1].keys THEN a.parsed[1].data ELSE <<>>

----------------------------------------------------------------------------
(* C1 *)

\* C1 as stated: on every /indicateurs/* route a request with no credential
\* ends with a 401 error and no outbound call.
C1_MissingCredentialIs401 ==
    (route \in CredentialRoutes /\ NoCredential)
        => /\ calls = <<>>
           /\ pc = "done" /\ resp.kind = "error" /\ resp.status = 401

\* C1 amended: on every /indicateurs/* route a request with no credential
\* issues no outbound call and ends with an error: 401, unless the request
\* also fails the declared constraints of its parameters, which are checked
\* first and end it with the validation error 422.
C1_MissingCredentialRejected ==
    (route \in CredentialRoutes /\ NoCredential)
        => /\ calls = <<>>
           /\ pc = "done" /\ resp.kind = "error"
           /\ resp.status = (IF ParametersRejected THEN 422 ELSE 401)

\* reached: /indicateurs/query with valid parameters, an empty token and no
\* usable token in the environment ends with 401 and no call
C1_Witness ==
    /\ route = "query" /\ pc = "done" /\ NoCredential /\ ~ParametersRejected
    /\ req.token = << <<>> >>
    /\ resp.status = 401 /\ calls = <<>>

----------------------------------------------------------------------------
(* C2 *)

\* C2: on GET /indicateurs with a credential, when exactly one of the five
\* per-category calls fails (non-success status, or timeout/transport
\* failure) and the others succeed, the request ends with a 200 response
\* holding all five keys, the failed one empty and the others the data array
\* of their call.
C2_OneFailureDegradesOneField ==
    (/\ route = "indicateurs" /\ pc = "done" /\ answers # <<>>
     /\ \E f \in 1..Len(answers) :
            /\ CallFailed(answers[f])
            /\ \A i \in 1..Len(answers) : i # f => SucceededWithJson(answers[i]))
        => /\ resp.kind = "ok" /\ resp.status = 200
           /\ Len(answers) = 5
           /\ resp.body =
                LET value(i) == IF CallFailed(answers[i]) THEN <<>> ELSE DataField(answers[i])
                IN  [t |-> "indicateurs", mobilite |-> value(1), energie |-> value(2),
                     ges |-> value(3), biodiversite |-> value(4), eau |-> value(5)]

----------------------------------------------------------------------------
(* C3 *)

\* C3: on the tabular routes, /indicateurs/cubes and /indicateurs/query, a
\* non-success upstream status ends the request with an error response that
\* carries that status, never with a 200 payload.
C3_UpstreamStatusSurfaced ==
    (/\ route \in SingleCallRoutes /\ pc = "done" /\ answers # <<>>
     /\ NonSuccess(answers[1]))
        => resp.kind = "error" /\ resp.status = answers[1].status

----------------------------------------------------------------------------
(* C4 *)

QueryCubeReturnsData ==
    route = "indicateurs" =>
        \A i \in 1..Len(results) :
            SucceededWithJson(answers[i]) => results[i] = DataField(answers[i])

\* C4 as stated: at both cube load call sites an upstream success yields the
\* data field of the parsed payload, or the empty sequence when it has none.
C4_BothSitesReturnData ==
    /\ QueryCubeReturnsData
    /\ (route = "query" /\ pc = "done" /\ answers # <<>> /\ SucceededWithJson(answers[1]))
            => /\ resp.kind = "ok"
               /\ resp.body.t = "array"
               /\ resp.body.v = DataField(answers[1])

\* C4 amended: query_cube on an upstream success returns the data field of
\* the parsed payload, or the empty sequence when it has none; the
\* /indicateurs/query route returns the whole parsed payload, unmodified.
C4_DataAtQueryCubeOnly ==
    /\ QueryCubeReturnsData
    /\ (route = "query" /\ pc = "done" /\ answers # <<>> /\ SucceededWithJson(answers[1]))
            => /\ resp.kind = "ok" /\ resp.status = 200
               /\ resp.body = [t |-> "object", v |-> answers[1].parsed[1]]

\* reached: /indicateurs answered, the first payload without a data key and
\* the second with one
C4_Witness ==
    /\ route = "indicateurs" /\ Len(results) = 5 /\ pc = "done" /\ resp.kind = "ok"
    /\ SucceededWithJson(answers[1]) /\ SucceededWithJson(answers[2])
    /\ "data" \notin answers[1].parsed[1].keys /\ resp.body.mobilite = <<>>
    /\ "data" \in answers[2].parsed[1].keys /\ resp.body.energie = <<"row2", "row3">>

----------------------------------------------------------------------------
(* C5 *)

\* the positions of sep in s, and the pieces they cut s into
SepPositions(s, sep) == {i \in 1..Len(s) : s[i] = sep}
PieceCount(s, sep) == Cardinality(SepPositions(s, sep)) + 1
NthOf(S, n) == CHOOSE i \in S : Cardinality({j \in S : j < i}) = n - 1
Piece(s, sep, k) ==
    LET from == IF k = 1 THEN 1 ELSE NthOf(SepPositions(s, sep), k - 1) + 1
        to == IF k = PieceCount(s, sep) THEN Len(s) ELSE NthOf(SepPositions(s, sep), k) - 1
    IN  SubSeq(s, from, to)

\* the filters of the built query: none when the query has no filters key
BuiltFilters ==
    IF DictHas(query, <<"filters">>) THEN DictGet(query, <<"filters">>).items ELSE <<>>

\* the k-th expression of the filters parameter
Expression(k) == Piece(req.filters, ";", k)

\* the built filters are, in input order, one per expression among kept, made
\* of that expression's first three fields
FiltersAre(kept) ==
    /\ Len(BuiltFilters) = Cardinality(kept)
    /\ \A n \in 1..Len(BuiltFilters) :
            LET e == Expression(NthOf(kept, n))
            IN  BuiltFilters[n] =
                    [t |-> "dict",
                     items |-> << <<(<<"member">>), [t |-> "str", s |-> Piece(e, ":", 1)]>>,
                                  <<(<<"operator">>), [t |-> "str", s |-> Piece(e, ":", 2)]>>,
                                  <<(<<"values">>),
                                    [t |-> "list",
                                     items |-> <<[t |-> "str", s |-> Piece(e, ":", 3)]>>]>> >>]

----------------------------------------------------------------------------
(* C6 *)

\* C6: the query parameter sent by /indicateurs/query is valid JSON, and
\* decoding it gives a query whose measures are the non-empty list of the
\* comma-separated, trimmed measures of the request.
C6_SentQueryIsJson ==
    (route = "query" /\ calls # <<>>)
        => LET decoded == JsonDecode(calls[1].query)
               expected == [k \in 1..PieceCount(req.measures[1], ",") |->
                                [t |-> "str", s |-> Strip(Piece(req.measures[1], ",", k))]]
           IN  /\ decoded.ok
               /\ decoded.val.t = "dict"
               /\ DictHas(decoded.val, <<"measures">>)
               /\ DictGet(decoded.val, <<"measures">>) = [t |-> "list", items |-> expected]
               /\ expected # <<>>

----------------------------------------------------------------------------
(* C7 *)

\* C7: an out-of-range limit on /indicateurs/query, and an out-of-range page
\* or page_size on /tabular/resources/{id}/data, end the request with a
\* validation error, no query built and no outbound call; every query sent
\* upstream has a limit within 1..1000.
C7_OutOfRangeRejectedBeforeCall ==
    /\ (route = "query" /\ (req.limit < 1 \/ req.limit > 1000))
            => /\ pc = "done" /\ resp.kind = "error" /\ resp.status = 422
               /\ query = NoQuery /\ calls = <<>>
    /\ (route = "data" /\ (req.page < 1 \/ req.page_size < 1 \/ req.page_size > 100))
            => /\ pc = "done" /\ resp.kind = "error" /\ resp.status = 422
               /\ calls = <<>>
    /\ (route \in {"query", "indicateurs"} /\ calls # <<>>)
            => /\ DictGet(query, <<"limit">>).t = "int"
               /\ DictGet(query, <<"limit">>).n \in 1..1000
               /\ route = "query" => DictGet(query, <<"limit">>).n = req.limit

\* reached: /indicateurs/query with a token and limit 5000 ends with 422 and
\* no call
C7_Witness ==
    /\ route = "query" /\ pc = "done"
    /\ req.limit = 5000 /\ req.cube # <<>> /\ req.measures # <<>>
    /\ req.token = << <<"param-jwt">> >>
    /\ resp.status = 422 /\ calls = <<>>

----------------------------------------------------------------------------
(* C8 *)

\* C8: on /indicateurs/query a non-success upstream status ends the request
\* with an error that carries that status and, as detail, the first
\* min(500, length) characters of the upstream body.
C8_ExcerptIsFirst500 ==
    (route = "query" /\ pc = "done" /\ answers # <<>> /\ NonSuccess(answers[1]))
        => /\ resp.kind = "error"
           /\ resp.status = answers[1].status
           /\ Len(resp.detail) =
                (IF Len(answers[1].text) > 500 THEN 500 ELSE Len(answers[1].text))
           /\ \A i \in 1..Len(resp.detail) : resp.detail[i] = answers[1].text[i]

\* reached: an upstream 500 with a body of more than 500 characters, and a
\* detail of 500
C8_Witness ==
    /\ route = "query" /\ pc = "done" /\ answers # <<>>
    /\ IsResponse(answers[1]) /\ answers[1].status = 500
    /\ Len(answers[1].text) > 500
    /\ Len(resp.detail) = 500

----------------------------------------------------------------------------
(* C9 *)

\* C9: one inbound request issues a bounded number of outbound calls and
\* repeats none: a tabular route, /indicateurs/cubes and /indicateurs/query
\* issue exactly one call once validation and the credential check pass, and
\* none after its answer; /indicateurs issues at most five, the i-th for the
\* i-th indicator category and only after the answers to those before it.
C9_CallsBoundedNeverRepeated ==
    /\ route \in SingleCallRoutes =>
            /\ Len(calls) <= 1
            /\ (~ParametersRejected /\ (route \in {"cubes", "query"} => ~NoCredential))
                    => Len(calls) = 1
            /\ (ParametersRejected \/ (route \in {"cubes", "query"} /\ NoCredential))
                    => Len(calls) = 0
    /\ route = "indicateurs" =>
            /\ Len(calls) <= 5
            /\ \A i \in 1..Len(calls) :
                    \E p \in 1..Len(calls[i].query) : calls[i].query[p] = Indicators[i].measure[1]
            /\ \A i, j \in 1..Len(calls) :
                    i # j => Indicators[i].key # Indicators[j].key
    /\ Len(answers) <= Len(calls)
    /\ Len(calls) <= Len(answers) + 1
    /\ pc = "done" => Len(calls) = Len(answers)
    /\ pc = "await" => Len(calls) = Len(answers) + 1

\* reached: /indicateurs ended by a transport failure of its third call,
\* after a 500 on its first: three calls and no more
C9_Witness ==
    /\ route = "indicateurs" /\ pc = "done"
    /\ Len(calls) = 3
    /\ answers[1].kind = "response" /\ answers[1].status = 500
    /\ answers[3].kind = "failure"

----------------------------------------------------------------------------
(* C10 *)

\* v is c with its leading and trailing whitespace removed and in title case:
\* the same letters, each upper case exactly when no letter precedes it
TrimmedTitleCased(v, c) ==
    \E lead \in 0..Len(c) :
        /\ lead + Len(v) <= Len(c)
        /\ \A i \in 1..Len(c) : (i <= lead \/ i > lead + Len(v)) => c[i] \in {" ", "\t"}
        /\ Len(v) > 0 => (c[lead + 1] \notin {" ", "\t"} /\ c[lead + Len(v)] \notin {" ", "\t"})
        /\ \A i \in 1..Len(v) :
            /\ ToLower(v[i]) = ToLower(c[lead + i])
            /\ IsCased(v[i]) =>
                (v[i] \in UpperLetters <=> (i = 1 \/ ~IsCased(v[i - 1])))

\* C10: the query of query_cube has measures [measure], the two dimensions
\* <cube>.libelle_commune and <cube>.annee, exactly two filters, the location
\* filter (equals, on the commune trimmed and title-cased) and then the year
\* filter (gte "2020"), the order year descending and the limit 10.
C10_FixedIndicatorQuery ==
    (route = "indicateurs" /\ calls # <<>>)
        => LET ind == Indicators[Len(calls)]
               label == ind.cube \o <<".libelle_commune">>
               year == ind.cube \o <<".annee">>
               str(x) == [t |-> "str", s |-> x]
               list(x) == [t |-> "list", items |-> x]
               location == DictGet(query, <<"filters">>).items[1]
           IN  /\ query.t = "dict"
               /\ [i \in 1..Len(query.items) |-> query.items[i][1]]
                    = << <<"measures">>, <<"dimensions">>, <<"filters">>, <<"order">>,
                         <<"limit">> >>
               /\ DictGet(query, <<"measures">>) = list(<<str(ind.measure)>>)
               /\ DictGet(query, <<"dimensions">>) = list(<<str(label), str(year)>>)
               /\ Len(DictGet(query, <<"filters">>).items) = 2
               /\ [i \in 1..Len(location.items) |-> location.items[i][1]]
                    = << <<"member">>, <<"operator">>, <<"values">> >>
               /\ DictGet(location, <<"member">>) = str(label)
               /\ DictGet(location, <<"operator">>) = str(<<"equals">>)
               /\ Len(DictGet(location, <<"values">>).items) = 1
               /\ TrimmedTitleCased(DictGet(location, <<"values">>).items[1].s,
                                    req.commune[1])
               /\ DictGet(query, <<"filters">>).items[2]
                    = [t |-> "dict",
                       items |-> << <<(<<"member">>), str(year)>>,
                                    <<(<<"operator">>), str(<<"gte">>)>>,
                                    <<(<<"values">>), list(<<str(<<"2", "0", "2", "0">>)>>)>> >>]
               /\ DictGet(query, <<"order">>) = list(<<list(<<str(year), str(<<"desc">>)>>)>>)
               /\ DictGet(query, <<"limit">>) = [t |-> "int", n |-> 10]

\* reached: the fifth query of /indicateurs for the commune " aB"
C10_Witness ==
    /\ route = "indicateurs" /\ Len(calls) = 5
    /\ req.commune[1] = <<" ", "a", "B">>
    /\ DictGet(DictGet(query, <<"filters">>).items[1], <<"values">>).items[1].s = <<"A", "b">>

====
